---- MODULE Spec2Model ----
(***************************************************************************)
(* Model of the `simply org create scratch` command                        *)
(* (src/commands/simply/org/create/scratch.ts) and of the capacity helper  *)
(* canCreateScratchOrg / getApiLimits (common/orgUtils.ts).                *)
(*                                                                         *)
(* Strings whose characters the code inspects (flag values) are sequences  *)
(* of one-character strings; identifiers that are only compared or passed  *)
(* on (hub usernames, job ids, error names) are plain strings.             *)
(***************************************************************************)
EXTENDS Integers, Sequences, FiniteSets, TLC

VARIABLES
    argv,                     \* the command line, as the flag framework receives it
    world,                    \* per candidate position: what the remote hub answers
    file,                     \* the definition file on disk
    pc,                       \* position of run() in its call chain
    flags,                    \* the parsed flags (line 164)
    idx,                      \* position of the for-of loop in flags['target-dev-hub']
    targetDevHubOrg,          \* line 166
    baseUrl,                  \* line 185
    scratchOrgCreateOptions,  \* line 190
    subscribed,               \* whether the lifecycle handler of line 221 is registered
    lastStatus,               \* line 218
    spinner,                  \* this.spinner
    output,                   \* what this.log / this.info / this.logSuccess printed
    probeLog,                 \* remote calls made by the hub loop, in order
    createCalls,              \* the options of every scratchOrgCreate invocation, in order
    emitted,                  \* lifecycle events emitted by the workflow so far
    settled,                  \* how the pending scratchOrgCreate promise settled
    caught,                   \* the error bound by the catch clause (line 250)
    outcome                   \* how run() ended

vars == <<argv, world, file, pc, flags, idx, targetDevHubOrg, baseUrl,
          scratchOrgCreateOptions, subscribed, lastStatus, spinner, output,
          probeLog, createCalls, emitted, settled, caught, outcome>>

inputs == <<argv, world, file>>

-----------------------------------------------------------------------------
(* Bounds of the model *)

MaxHubs == 2        \* longest candidate list
MaxRemaining == 2   \* largest Remaining count in a limits response
MaxEntries == 3     \* most entries in a limits response
MaxTail == 3        \* longest free suffix of an edition value
MaxEvents == 1      \* most lifecycle events emitted during one provisioning call
MaxWait == 3        \* largest explicit --wait value

-----------------------------------------------------------------------------
(* JavaScript values *)

Undefined == <<"undefined">>   \* distinct from every string: its one element is no character
EmptyString == <<>>

\* JavaScript truthiness of a string-or-undefined value
Truthy(v) == v # Undefined /\ v # EmptyString

EmptyObject == [k \in {} |-> Undefined]

\* { ...a, ...b }: the keys of both, b's value where both have the key
Spread(a, b) == [k \in (DOMAIN a) \cup (DOMAIN b) |-> IF k \in DOMAIN b THEN b[k] ELSE a[k]]

\* String.prototype.startsWith
StartsWith(value, prefix) ==
    /\ Len(value) >= Len(prefix)
    /\ SubSeq(value, 1, Len(prefix)) = prefix

\* index of the first occurrence of character c in value, 0 when there is none
IndexOf(value, c) ==
    IF \E i \in 1..Len(value) : value[i] = c
    THEN CHOOSE i \in 1..Len(value) : value[i] = c /\ \A j \in 1..(i - 1) : value[j] # c
    ELSE 0

\* String.prototype.replace with a one-character string pattern: the first occurrence only
ReplaceFirst(value, c, by) ==
    LET i == IndexOf(value, c)
    IN  IF i = 0 THEN value ELSE [value EXCEPT ![i] = by]

\* replaceAll, the variant that rewrites every occurrence
ReplaceEvery(value, c, by) == [i \in 1..Len(value) |-> IF value[i] = c THEN by ELSE value[i]]

-----------------------------------------------------------------------------
(* The edition flag *)

Partner == <<"p", "a", "r", "t", "n", "e", "r">>
PartnerHyphen == Partner \o <<"-">>
Developer == <<"d", "e", "v", "e", "l", "o", "p", "e", "r">>
Enterprise == <<"e", "n", "t", "e", "r", "p", "r", "i", "s", "e">>
Group == <<"g", "r", "o", "u", "p">>
Professional == <<"p", "r", "o", "f", "e", "s", "s", "i", "o", "n", "a", "l">>

EditionOptions ==
    { Developer, Enterprise, Group, Professional,
      PartnerHyphen \o Developer, PartnerHyphen \o Enterprise,
      PartnerHyphen \o Group, PartnerHyphen \o Professional }

EditionParse_ReplaceAll(value) ==
    IF StartsWith(value, PartnerHyphen) THEN ReplaceEvery(value, "-", " ") ELSE value

\* flags.edition.parse
EditionParse(value) ==
    IF StartsWith(value, PartnerHyphen) THEN ReplaceFirst(value, "-", " ") ELSE value

-----------------------------------------------------------------------------
(* The capacity helper *)

ActiveScratchOrgs == "ActiveScratchOrgs"
DailyScratchOrgs == "DailyScratchOrgs"

\* getApiLimits: Object.entries(result).map(([name, {Max, Remaining}]) => ...)
getApiLimits(result) ==
    [i \in 1..Len(result) |->
        [name |-> result[i].key, max |-> result[i].Max, remaining |-> result[i].Remaining]]

\* Array.prototype.find by name: the index of the first match, 0 for undefined
FindLimit(limits, name) ==
    IF \E i \in 1..Len(limits) : limits[i].name = name
    THEN CHOOSE i \in 1..Len(limits) :
            limits[i].name = name /\ \A j \in 1..(i - 1) : limits[j].name # name
    ELSE 0

\* limit?.remaining ?? 0
RemainingOrZero(limits, i) == IF i = 0 THEN 0 ELSE limits[i].remaining

canCreateScratchOrg_Either(result) ==
    LET limits == getApiLimits(result)
        activeRemaining == RemainingOrZero(limits, FindLimit(limits, ActiveScratchOrgs))
        dailyRemaining == RemainingOrZero(limits, FindLimit(limits, DailyScratchOrgs))
    IN  activeRemaining > 0 \/ dailyRemaining > 0

\* canCreateScratchOrg, given the body of the /limits response
canCreateScratchOrg(result) ==
    LET limits == getApiLimits(result)
        activeScratchOrgs == FindLimit(limits, ActiveScratchOrgs)
        dailyScratchOrgs == FindLimit(limits, DailyScratchOrgs)
        activeRemaining == RemainingOrZero(limits, activeScratchOrgs)
        dailyRemaining == RemainingOrZero(limits, dailyScratchOrgs)
    IN  activeRemaining > 0 /\ dailyRemaining > 0

-----------------------------------------------------------------------------
(* Command-line inputs *)

DefaultWait == 5           \* Duration.minutes(5)
MinWait == 2               \* min: 2
DefaultDurationDays == 7   \* Duration.days(7)
TimeoutExitCode == 69      \* { code: '69', exit: 69 }

CliText == <<"c", "l", "i">>
FileText == <<"f", "i", "l", "e">>
Preview == <<"p", "r", "e", "v", "i", "e", "w">>
SourceOrgId == <<"0", "0", "D">>
DefinitionPath == <<"d", "e", "f", ".", "j", "s", "o", "n">>
PromptedSecret == <<"s", "e", "c", "r", "e", "t">>

HubIds == {"hubA", "hubB"}
ScratchOrgInfoIds == {"2SR-1", "2SR-2"}
HubUrl == "https://hub.example"

\* the command line with only the required flag given; 0 stands for an absent number
DefaultArgv ==
    [ admin_email |-> Undefined, alias |-> Undefined, api_version |-> Undefined,
      async |-> FALSE, client_id |-> Undefined, definition_file |-> Undefined,
      description |-> Undefined, duration_days |-> 0, edition |-> Undefined,
      name |-> Undefined, no_ancestors |-> FALSE, no_namespace |-> FALSE,
      release |-> Undefined, set_default |-> FALSE, source_org |-> Undefined,
      target_dev_hub |-> <<"hubA">>, track_source |-> TRUE, username |-> Undefined,
      wait |-> 0 ]

\* this.parse(OrgCreateScratch): the edition's parse step and the declared defaults
ParseArgv(a) ==
    [ a EXCEPT
        !.edition = IF a.edition = Undefined THEN Undefined ELSE EditionParse(a.edition),
        !.duration_days = IF a.duration_days = 0 THEN DefaultDurationDays ELSE a.duration_days,
        !.wait = IF a.wait = 0 THEN DefaultWait ELSE a.wait ]

-----------------------------------------------------------------------------
(* What the remote hubs answer *)

LimitEntry(key, remaining) == [key |-> key, Max |-> MaxRemaining, Remaining |-> remaining]

LimitKeys == {ActiveScratchOrgs, DailyScratchOrgs, "activescratchorgs", "DailyApiRequests"}

LimitEntries == {LimitEntry(k, r) : k \in LimitKeys, r \in 0..MaxRemaining}

\* bodies of the /limits response: an object, so no key occurs twice
LimitResults ==
    { r \in UNION {[1..n -> LimitEntries] : n \in 0..MaxEntries} :
        \A i, j \in 1..Len(r) : r[i].key = r[j].key => i = j }

FullCapacity == <<LimitEntry(ActiveScratchOrgs, 1), LimitEntry(DailyScratchOrgs, 1)>>

\* the responses the hub-selection runs draw from
HubLimitResults ==
    { FullCapacity,
      <<LimitEntry(ActiveScratchOrgs, 0), LimitEntry(DailyScratchOrgs, 1)>>,
      <<LimitEntry(DailyScratchOrgs, 0), LimitEntry(ActiveScratchOrgs, 1)>>,
      <<LimitEntry(ActiveScratchOrgs, 1)>>,
      <<>> }

Hub(fault, limits, url) == [fault |-> fault, limits |-> limits, instanceUrl |-> url]

GoodHub == Hub("none", FullCapacity, HubUrl)

\* fault names the remote call of a probe that rejects
HubWorlds ==
    {Hub(f, FullCapacity, HubUrl) : f \in {"auth", "connection", "limits", "org"}}
    \cup {Hub("none", r, HubUrl) : r \in HubLimitResults}
    \cup {Hub("none", FullCapacity, u) : u \in {"", "undefined"}}

-----------------------------------------------------------------------------
(* The definition file *)

OverrideKeys == {"edition", "username", "description", "orgName", "release", "sourceOrg", "adminEmail"}
FileKeys == OverrideKeys \cup {"features"}

NoFile == [valid |-> FALSE, json |-> EmptyObject]

FileKeySets == {{}, FileKeys} \cup {{k} : k \in FileKeys}

DefinitionFiles ==
    {NoFile} \cup {[valid |-> TRUE, json |-> [k \in S |-> FileText]] : S \in FileKeySets}

-----------------------------------------------------------------------------
(* What the provisioning workflow answers *)

NoError == [sfError |-> FALSE, name |-> "", data |-> [scratchOrgInfoId |-> ""]]
SfError(name) == [sfError |-> TRUE, name |-> name, data |-> [scratchOrgInfoId |-> ""]]

NoInfo == [defined |-> FALSE, Id |-> ""]
NoAuthFields == [defined |-> FALSE, orgId |-> ""]

CreateResult(info, auth) ==
    [username |-> "test-scratch@example.com", scratchOrgInfo |-> info,
     authFields |-> auth, warnings |-> <<>>]

CreateResults ==
    { CreateResult(info, auth) :
        info \in {NoInfo, [defined |-> TRUE, Id |-> "2SR-1"]},
        auth \in {NoAuthFields, [defined |-> TRUE, orgId |-> "00D-1"]} }

TimeoutName == "ScratchOrgInfoTimeoutError"

CreateErrors ==
    {[sfError |-> TRUE, name |-> TimeoutName, data |-> [scratchOrgInfoId |-> id]] :
        id \in ScratchOrgInfoIds}
    \cup { [sfError |-> TRUE, name |-> "RemoteOrgSignupFailed", data |-> [scratchOrgInfoId |-> ""]],
           [sfError |-> FALSE, name |-> TimeoutName, data |-> [scratchOrgInfoId |-> "2SR-1"]] }

NoValue == CreateResult(NoInfo, NoAuthFields)
Pending == [state |-> "pending", value |-> NoValue, error |-> NoError]
Fulfilled(v) == [state |-> "fulfilled", value |-> v, error |-> NoError]
Rejected(e) == [state |-> "rejected", value |-> NoValue, error |-> e]

LifecycleStages == {"prepare request", "wait for org"}

-----------------------------------------------------------------------------
(* Values of run()'s locals before they are assigned *)

NoOrg == [hub |-> 0, username |-> "", instanceUrl |-> ""]
NoStatus == <<>>
NoOptions ==
    [ alias |-> Undefined, apiversion |-> Undefined, clientSecret |-> Undefined,
      connectedAppConsumerKey |-> Undefined, durationDays |-> 0, hubOrg |-> NoOrg,
      nonamespace |-> FALSE, noancestors |-> FALSE, orgConfig |-> EmptyObject,
      setDefault |-> FALSE, tracksSource |-> FALSE, wait |-> 0 ]
NoResponse == [username |-> "", scratchOrgInfo |-> NoInfo, authFields |-> NoAuthFields,
               warnings |-> <<>>, orgId |-> ""]
Running == [status |-> "running", error |-> NoError, exitCode |-> 0, response |-> NoResponse]

\* a rejected run(): the framework reports the error and exits with the generic code 1
Threw(e) == [status |-> "threw", error |-> e, exitCode |-> 1, response |-> NoResponse]

-----------------------------------------------------------------------------
(* Initial states: the command has been constructed, run() has not started *)

Start ==
    /\ pc = "parse"
    /\ flags = DefaultArgv
    /\ idx = 0
    /\ targetDevHubOrg = NoOrg
    /\ baseUrl = ""
    /\ scratchOrgCreateOptions = NoOptions
    /\ subscribed = FALSE
    /\ lastStatus = NoStatus
    /\ spinner = [running |-> FALSE, text |-> "", status |-> NoStatus]
    /\ output = <<>>
    /\ probeLog = <<>>
    /\ createCalls = <<>>
    /\ emitted = 0
    /\ settled = Pending
    /\ caught = NoError
    /\ outcome = Running

\* any candidate list, any answers of the hubs; the other flags absent
InitProbe ==
    /\ \E n \in 0..MaxHubs :
         /\ \E ids \in [1..n -> HubIds] : argv = [DefaultArgv EXCEPT !.target_dev_hub = ids]
         /\ world \in [1..n -> HubWorlds]
    /\ file = NoFile
    /\ Start

\* one candidate, any body of its limits response
InitLimits ==
    /\ argv = DefaultArgv
    /\ \E r \in LimitResults : world = <<Hub("none", r, HubUrl)>>
    /\ file = NoFile
    /\ Start

\* one hub with capacity; any definition file and any of the flags that override it
InitConfig ==
    /\ \E ed \in {Undefined, PartnerHyphen \o Developer},
          un, de, na \in {Undefined, EmptyString, CliText},
          re \in {Undefined, Preview},
          so \in {Undefined, SourceOrgId},
          ae \in {Undefined, CliText},
          df \in {Undefined, DefinitionPath} :
         argv = [DefaultArgv EXCEPT !.edition = ed, !.username = un, !.description = de,
                                    !.name = na, !.release = re, !.source_org = so,
                                    !.admin_email = ae, !.definition_file = df]
    /\ world = <<GoodHub>>
    /\ IF argv.definition_file = Undefined THEN file = NoFile ELSE file \in DefinitionFiles
    /\ Start

\* one hub with capacity; any of the flags that shape the call
InitMode ==
    /\ \E as, sd, ts \in BOOLEAN,
          wt \in {0} \cup MinWait..MaxWait,
          ci \in {Undefined, EmptyString, CliText},
          ed \in {Undefined} \cup EditionOptions :
         argv = [DefaultArgv EXCEPT !.async = as, !.set_default = sd, !.track_source = ts,
                                    !.wait = wt, !.client_id = ci, !.edition = ed]
    /\ world = <<GoodHub>>
    /\ file = NoFile
    /\ Start

Init == InitProbe \/ InitLimits \/ InitConfig \/ InitMode

-----------------------------------------------------------------------------
(* Hub selection: lines 166-188 *)

ProbeCall(call, i) == [call |-> call, hub |-> i, username |-> flags.target_dev_hub[i]]

\* await this.parse(OrgCreateScratch)
ParseFlags ==
    /\ pc = "parse"
    /\ flags' = ParseArgv(argv)
    /\ idx' = 1
    /\ pc' = "loop"
    /\ UNCHANGED <<inputs, targetDevHubOrg, baseUrl, scratchOrgCreateOptions, subscribed,
                   lastStatus, spinner, output, probeLog, createCalls, emitted, settled,
                   caught, outcome>>

\* for (const targetDevHub of flags['target-dev-hub'] ?? [])
LoopHead ==
    /\ pc = "loop"
    /\ pc' = IF idx <= Len(flags.target_dev_hub) THEN "auth" ELSE "checkHub"
    /\ UNCHANGED <<inputs, flags, idx, targetDevHubOrg, baseUrl, scratchOrgCreateOptions,
                   subscribed, lastStatus, spinner, output, probeLog, createCalls, emitted,
                   settled, caught, outcome>>

\* a remote call of the probe that either resolves, and run() goes on at `next`, or
\* rejects, and the rejection leaves run()
Await(call, fault, next) ==
    /\ probeLog' = Append(probeLog, ProbeCall(call, idx))
    /\ IF world[idx].fault = fault
       THEN pc' = "done" /\ outcome' = Threw(SfError(call))
       ELSE pc' = next /\ UNCHANGED outcome

\* the variant that swallows the rejection and moves to the next candidate
AuthInfoCreate_Skip ==
    /\ pc = "auth"
    /\ probeLog' = Append(probeLog, ProbeCall("AuthInfo.create", idx))
    /\ IF world[idx].fault = "auth"
       THEN pc' = "loop" /\ idx' = idx + 1
       ELSE pc' = "connect" /\ UNCHANGED idx
    /\ UNCHANGED <<inputs, flags, targetDevHubOrg, baseUrl, scratchOrgCreateOptions,
                   subscribed, lastStatus, spinner, output, createCalls, emitted, settled,
                   caught, outcome>>

\* await AuthInfo.create({ username: targetDevHub })
AuthInfoCreate ==
    /\ pc = "auth"
    /\ Await("AuthInfo.create", "auth", "connect")
    /\ UNCHANGED <<inputs, flags, idx, targetDevHubOrg, baseUrl, scratchOrgCreateOptions,
                   subscribed, lastStatus, spinner, output, createCalls, emitted, settled,
                   caught>>

\* await Connection.create({ authInfo: targetDevHubAuthInfo })
ConnectionCreate ==
    /\ pc = "connect"
    /\ Await("Connection.create", "connection", "limits")
    /\ UNCHANGED <<inputs, flags, idx, targetDevHubOrg, baseUrl, scratchOrgCreateOptions,
                   subscribed, lastStatus, spinner, output, createCalls, emitted, settled,
                   caught>>

\* the variant that takes a failed request of /limits for "no capacity"
CanCreateScratchOrg_Lenient ==
    /\ pc = "limits"
    /\ probeLog' = Append(probeLog, ProbeCall("connection.request", idx))
    /\ IF world[idx].fault # "limits" /\ canCreateScratchOrg(world[idx].limits)
       THEN pc' = "org" /\ UNCHANGED idx
       ELSE pc' = "loop" /\ idx' = idx + 1
    /\ UNCHANGED <<inputs, flags, targetDevHubOrg, baseUrl, scratchOrgCreateOptions,
                   subscribed, lastStatus, spinner, output, createCalls, emitted, settled,
                   caught, outcome>>

\* if (await canCreateScratchOrg(targetDevHubConnection)), with its request of /limits
CanCreateScratchOrg ==
    /\ pc = "limits"
    /\ probeLog' = Append(probeLog, ProbeCall("connection.request", idx))
    /\ IF world[idx].fault = "limits"
       THEN pc' = "done" /\ outcome' = Threw(SfError("connection.request")) /\ UNCHANGED idx
       ELSE /\ UNCHANGED outcome
            /\ IF canCreateScratchOrg(world[idx].limits)
               THEN pc' = "org" /\ UNCHANGED idx
               ELSE pc' = "loop" /\ idx' = idx + 1
    /\ UNCHANGED <<inputs, flags, targetDevHubOrg, baseUrl, scratchOrgCreateOptions,
                   subscribed, lastStatus, spinner, output, createCalls, emitted, settled,
                   caught>>

\* the Org that Org.create builds on candidate i's connection
OrgOf(i) == [hub |-> i, username |-> flags.target_dev_hub[i], instanceUrl |-> world[i].instanceUrl]

\* the variant without the break: the loop goes on to the next candidate
OrgCreate_NoBreak ==
    /\ pc = "org"
    /\ probeLog' = Append(probeLog, ProbeCall("Org.create", idx))
    /\ IF world[idx].fault = "org"
       THEN /\ pc' = "done" /\ outcome' = Threw(SfError("Org.create"))
            /\ UNCHANGED <<targetDevHubOrg, idx>>
       ELSE /\ targetDevHubOrg' = OrgOf(idx)
            /\ pc' = "loop" /\ idx' = idx + 1
            /\ UNCHANGED outcome
    /\ UNCHANGED <<inputs, flags, baseUrl, scratchOrgCreateOptions, subscribed,
                   lastStatus, spinner, output, createCalls, emitted, settled, caught>>

\* targetDevHubOrg = await Org.create({ connection }); break
OrgCreate ==
    /\ pc = "org"
    /\ probeLog' = Append(probeLog, ProbeCall("Org.create", idx))
    /\ IF world[idx].fault = "org"
       THEN /\ pc' = "done" /\ outcome' = Threw(SfError("Org.create"))
            /\ UNCHANGED targetDevHubOrg
       ELSE /\ targetDevHubOrg' = OrgOf(idx)
            /\ pc' = "checkHub"
            /\ UNCHANGED outcome
    /\ UNCHANGED <<inputs, flags, idx, baseUrl, scratchOrgCreateOptions, subscribed,
                   lastStatus, spinner, output, createCalls, emitted, settled, caught>>

\* Org.getField(INSTANCE_URL)?.toString(), then !baseUrl
NoBaseUrl(url) == url \in {"undefined", ""}

\* the variant without the check of line 181
CheckHub_NoGuard ==
    /\ pc = "checkHub"
    /\ baseUrl' = targetDevHubOrg.instanceUrl
    /\ IF NoBaseUrl(baseUrl')
       THEN pc' = "done" /\ outcome' = Threw(SfError("NoInstanceUrl"))
       ELSE pc' = "secret" /\ UNCHANGED outcome
    /\ UNCHANGED <<inputs, flags, idx, targetDevHubOrg, scratchOrgCreateOptions, subscribed,
                   lastStatus, spinner, output, probeLog, createCalls, emitted, settled,
                   caught>>

\* lines 181-188: no hub was selected, or the selected hub has no instance URL
CheckHub ==
    /\ pc = "checkHub"
    /\ IF targetDevHubOrg = NoOrg
       THEN /\ pc' = "done" /\ outcome' = Threw(SfError("noAvailableDevhubs"))
            /\ UNCHANGED baseUrl
       ELSE /\ baseUrl' = targetDevHubOrg.instanceUrl
            /\ IF NoBaseUrl(baseUrl')
               THEN pc' = "done" /\ outcome' = Threw(SfError("NoInstanceUrl"))
               ELSE pc' = "secret" /\ UNCHANGED outcome
    /\ UNCHANGED <<inputs, flags, idx, targetDevHubOrg, scratchOrgCreateOptions, subscribed,
                   lastStatus, spinner, output, probeLog, createCalls, emitted, settled,
                   caught>>

-----------------------------------------------------------------------------
(* The options of the provisioning call: lines 190-216 *)

\* await this.secretPrompt(...), only when flags['client-id'] is truthy
SecretPrompt ==
    /\ pc = "secret"
    /\ IF Truthy(flags.client_id)
       THEN \E answered \in BOOLEAN :
              IF answered
              THEN /\ scratchOrgCreateOptions' =
                        [scratchOrgCreateOptions EXCEPT !.clientSecret = PromptedSecret]
                   /\ pc' = "readFile" /\ UNCHANGED outcome
              ELSE /\ pc' = "done" /\ outcome' = Threw(SfError("secretPrompt"))
                   /\ UNCHANGED scratchOrgCreateOptions
       ELSE pc' = "readFile" /\ UNCHANGED <<scratchOrgCreateOptions, outcome>>
    /\ UNCHANGED <<inputs, flags, idx, targetDevHubOrg, baseUrl, subscribed, lastStatus,
                   spinner, output, probeLog, createCalls, emitted, settled, caught>>

\* JSON.parse(await fs.promises.readFile(flags['definition-file'], 'utf-8')), only
\* when flags['definition-file'] is truthy
ReadDefinitionFile ==
    /\ pc = "readFile"
    /\ IF Truthy(flags.definition_file)
       THEN IF file.valid
            THEN /\ scratchOrgCreateOptions' =
                      [scratchOrgCreateOptions EXCEPT !.orgConfig = file.json]
                 /\ pc' = "assemble" /\ UNCHANGED outcome
            ELSE /\ pc' = "done" /\ outcome' = Threw(SfError("JSON.parse"))
                 /\ UNCHANGED scratchOrgCreateOptions
       ELSE pc' = "assemble" /\ UNCHANGED <<scratchOrgCreateOptions, outcome>>
    /\ UNCHANGED <<inputs, flags, idx, targetDevHubOrg, baseUrl, subscribed, lastStatus,
                   spinner, output, probeLog, createCalls, emitted, settled, caught>>

\* ...(flag ? { key: flag } : {})
Override(config, flag, key) ==
    Spread(config, IF Truthy(flag) THEN (key :> flag) ELSE EmptyObject)

\* orgConfig (lines 201-212): the definition file's keys, then one spread per flag
OrgConfig(definition) ==
    Override(Override(Override(Override(Override(Override(Override(definition,
        flags.edition, "edition"),
        flags.username, "username"),
        flags.description, "description"),
        flags.name, "orgName"),
        flags.release, "release"),
        flags.source_org, "sourceOrg"),
        flags.admin_email, "adminEmail")

\* the variant that hands the wait flag down whatever the mode
EffectiveWait_Flag == flags.wait

\* wait: flags.async ? Duration.minutes(0) : flags.wait
EffectiveWait == IF flags.async THEN 0 ELSE flags.wait

\* the object literal of lines 190-216, once its two awaits have resolved
AssembleOptions ==
    /\ pc = "assemble"
    /\ scratchOrgCreateOptions' =
          [ alias |-> flags.alias,
            apiversion |-> flags.api_version,
            clientSecret |-> scratchOrgCreateOptions.clientSecret,
            connectedAppConsumerKey |-> flags.client_id,
            durationDays |-> flags.duration_days,
            hubOrg |-> targetDevHubOrg,
            nonamespace |-> flags.no_namespace,
            noancestors |-> flags.no_ancestors,
            orgConfig |-> OrgConfig(scratchOrgCreateOptions.orgConfig),
            setDefault |-> flags.set_default,
            tracksSource |-> flags.track_source,
            wait |-> EffectiveWait ]
    /\ pc' = "subscribe"
    /\ UNCHANGED <<inputs, flags, idx, targetDevHubOrg, baseUrl, subscribed, lastStatus,
                   spinner, output, probeLog, createCalls, emitted, settled, caught, outcome>>

-----------------------------------------------------------------------------
(* The provisioning call: lines 218-261 *)

Bin == "sf"

Line(via, message, tokens) == [via |-> via, message |-> message, tokens |-> tokens]

\* messages.getMessage('action.resume', [this.config.bin, id]), printed by this.info
ResumeHint(id) == Line("info", "action.resume", <<Bin, id>>)

\* if (!flags.async) Lifecycle.getInstance().on(scratchOrgLifecycleEventName, handler)
Subscribe ==
    /\ pc = "subscribe"
    /\ subscribed' = IF ~flags.async THEN TRUE ELSE subscribed
    /\ pc' = "spinner"
    /\ UNCHANGED <<inputs, flags, idx, targetDevHubOrg, baseUrl, scratchOrgCreateOptions,
                   lastStatus, spinner, output, probeLog, createCalls, emitted, settled,
                   caught, outcome>>

\* this.log(); this.spinner.start(...)
StartSpinner ==
    /\ pc = "spinner"
    /\ output' = Append(output, Line("log", "", <<>>))
    /\ spinner' = [running |-> TRUE,
                   text |-> IF flags.async THEN "Requesting Scratch Org" ELSE "Creating Scratch Org",
                   status |-> spinner.status]
    /\ pc' = "invoke"
    /\ UNCHANGED <<inputs, flags, idx, targetDevHubOrg, baseUrl, scratchOrgCreateOptions,
                   subscribed, lastStatus, probeLog, createCalls, emitted, settled,
                   caught, outcome>>

\* scratchOrgCreate(scratchOrgCreateOptions) is called; run() awaits its promise
InvokeScratchOrgCreate ==
    /\ pc = "invoke"
    /\ createCalls' = Append(createCalls, scratchOrgCreateOptions)
    /\ emitted' = 0
    /\ settled' = Pending
    /\ pc' = "awaiting"
    /\ UNCHANGED <<inputs, flags, idx, targetDevHubOrg, baseUrl, scratchOrgCreateOptions,
                   subscribed, lastStatus, spinner, output, probeLog, caught, outcome>>

\* buildStatus(data, baseUrl): the text shown for a lifecycle event
buildStatus(data, url) == <<data, url>>

\* the workflow emits a lifecycle event; the handler of lines 223-227 runs if registered
LifecycleEvent ==
    /\ pc = "awaiting"
    /\ emitted < MaxEvents
    /\ emitted' = emitted + 1
    /\ \E stage \in LifecycleStages :
         IF subscribed
         THEN /\ lastStatus' = buildStatus(stage, baseUrl)
              /\ spinner' = [spinner EXCEPT !.status = lastStatus']
         ELSE UNCHANGED <<lastStatus, spinner>>
    /\ UNCHANGED <<inputs, pc, flags, idx, targetDevHubOrg, baseUrl, scratchOrgCreateOptions,
                   subscribed, output, probeLog, createCalls, settled, caught, outcome>>

\* the promise of scratchOrgCreate settles; a rejection enters the catch clause
SettleCreate ==
    /\ pc = "awaiting"
    /\ \/ \E v \in CreateResults :
            settled' = Fulfilled(v) /\ pc' = "fulfilled" /\ UNCHANGED caught
       \/ \E e \in CreateErrors :
            settled' = Rejected(e) /\ pc' = "catch" /\ caught' = e
    /\ UNCHANGED <<inputs, flags, idx, targetDevHubOrg, baseUrl, scratchOrgCreateOptions,
                   subscribed, lastStatus, spinner, output, probeLog, createCalls, emitted,
                   outcome>>

Stopped(msg) == [spinner EXCEPT !.running = FALSE, !.status = msg]

\* authFields?.orgId
OrgIdOf(authFields) == IF authFields.defined THEN authFields.orgId ELSE "undefined"

\* lines 238-249: the body of the try block after the await
OnFulfilled ==
    /\ pc = "fulfilled"
    /\ spinner' = Stopped(lastStatus)
    /\ LET v == settled.value IN
       IF ~v.scratchOrgInfo.defined
       THEN /\ caught' = SfError("SfError")
            /\ pc' = "catch"
            /\ UNCHANGED <<output, outcome>>
       ELSE /\ output' = output \o
                  << Line("log", "", <<>>),
                     IF flags.async THEN ResumeHint(v.scratchOrgInfo.Id)
                                    ELSE Line("logSuccess", "success", <<>>) >>
            /\ outcome' = [status |-> "returned", error |-> NoError, exitCode |-> 0,
                           response |-> [username |-> v.username,
                                         scratchOrgInfo |-> v.scratchOrgInfo,
                                         authFields |-> v.authFields,
                                         warnings |-> v.warnings,
                                         orgId |-> OrgIdOf(v.authFields)]]
            /\ pc' = "done"
            /\ UNCHANGED caught
    /\ UNCHANGED <<inputs, flags, idx, targetDevHubOrg, baseUrl, scratchOrgCreateOptions,
                   subscribed, lastStatus, probeLog, createCalls, emitted, settled>>

\* error instanceof SfError && error.name === 'ScratchOrgInfoTimeoutError'
IsTimeout(error) == error.sfError /\ error.name = TimeoutName

\* the variant that calls the workflow again when it failed
Catch_Retry ==
    /\ pc = "catch"
    /\ IF IsTimeout(caught)
       THEN pc' = "timeout" /\ UNCHANGED outcome
       ELSE IF Len(createCalls) < 2
            THEN pc' = "invoke" /\ UNCHANGED outcome
            ELSE pc' = "done" /\ outcome' = Threw(caught)
    /\ UNCHANGED <<inputs, flags, idx, targetDevHubOrg, baseUrl, scratchOrgCreateOptions,
                   subscribed, lastStatus, spinner, output, probeLog, createCalls, emitted,
                   settled, caught>>

\* catch (error): the timeout branch is taken, or the error is thrown again
Catch ==
    /\ pc = "catch"
    /\ IF IsTimeout(caught)
       THEN pc' = "timeout" /\ UNCHANGED outcome
       ELSE pc' = "done" /\ outcome' = Threw(caught)
    /\ UNCHANGED <<inputs, flags, idx, targetDevHubOrg, baseUrl, scratchOrgCreateOptions,
                   subscribed, lastStatus, spinner, output, probeLog, createCalls, emitted,
                   settled, caught>>

\* the variant that leaves without printing the hint
TimeoutHint_Silent ==
    /\ pc = "timeout"
    /\ spinner' = Stopped(lastStatus)
    /\ pc' = "exit"
    /\ UNCHANGED <<inputs, flags, idx, targetDevHubOrg, baseUrl, scratchOrgCreateOptions,
                   subscribed, lastStatus, output, probeLog, createCalls, emitted, settled,
                   caught, outcome>>

\* lines 252-256: stop the spinner, print the resume hint
TimeoutHint ==
    /\ pc = "timeout"
    /\ spinner' = Stopped(lastStatus)
    /\ output' = Append(output, ResumeHint(caught.data.scratchOrgInfoId))
    /\ pc' = "exit"
    /\ UNCHANGED <<inputs, flags, idx, targetDevHubOrg, baseUrl, scratchOrgCreateOptions,
                   subscribed, lastStatus, probeLog, createCalls, emitted, settled, caught,
                   outcome>>

\* this.error('The scratch org did not complete within your wait time', { exit: 69 })
TimeoutExit ==
    /\ pc = "exit"
    /\ outcome' = [status |-> "exit", error |-> SfError("CLIError"),
                   exitCode |-> TimeoutExitCode, response |-> NoResponse]
    /\ pc' = "done"
    /\ UNCHANGED <<inputs, flags, idx, targetDevHubOrg, baseUrl, scratchOrgCreateOptions,
                   subscribed, lastStatus, spinner, output, probeLog, createCalls, emitted,
                   settled, caught>>

-----------------------------------------------------------------------------

Next ==
    \/ ParseFlags
    \/ LoopHead
    \/ AuthInfoCreate
    \/ ConnectionCreate
    \/ CanCreateScratchOrg
    \/ OrgCreate
    \/ CheckHub
    \/ SecretPrompt
    \/ ReadDefinitionFile
    \/ AssembleOptions
    \/ Subscribe
    \/ StartSpinner
    \/ InvokeScratchOrgCreate
    \/ LifecycleEvent
    \/ SettleCreate
    \/ OnFulfilled
    \/ Catch
    \/ TimeoutHint
    \/ TimeoutExit

Spec == Init /\ [][Next]_vars

-----------------------------------------------------------------------------
(* The edition parse step on its own, over values the option list would reject too *)

EditionChars == {"-", "x", " "}

Tails == UNION {[1..n -> EditionChars] : n \in 0..MaxTail}

EditionInputs ==
    EditionOptions
    \cup {prefix \o tail :
            prefix \in {<<>>, Partner, PartnerHyphen, <<"x">> \o PartnerHyphen,
                        <<"P">> \o Tail(PartnerHyphen)},
            tail \in Tails}

InitEdition ==
    /\ \E ed \in EditionInputs : argv = [DefaultArgv EXCEPT !.edition = ed]
    /\ world = <<GoodHub>>
    /\ file = NoFile
    /\ Start

SpecEdition == InitEdition /\ [][ParseFlags]_vars

-----------------------------------------------------------------------------
(* Vocabulary of the properties *)

Range(s) == {s[i] : i \in DOMAIN s}

\* the response names both tracked counters, each with a remaining count above zero
BothQuotasPositive(result) ==
    /\ \E i \in 1..Len(result) : result[i].key = "ActiveScratchOrgs" /\ result[i].Remaining > 0
    /\ \E i \in 1..Len(result) : result[i].key = "DailyScratchOrgs" /\ result[i].Remaining > 0

Hubs == 1..Len(world)

InSelection == pc \in {"parse", "loop", "auth", "connect", "limits", "org"}

BeforeInvocation ==
    pc \in {"parse", "loop", "auth", "connect", "limits", "org", "checkHub", "secret",
            "readFile", "assemble", "subscribe", "spinner", "invoke"}

\* a supplied flag's value is what the configuration holds under the flag's key
SuppliedFlagHolds(config, flag, key) ==
    flag # Undefined => key \in DOMAIN config /\ config[key] = flag

\* the name of the error a failing probe call rejects with
FailureOf(fault) ==
    CASE fault = "auth" -> "AuthInfo.create"
      [] fault = "connection" -> "Connection.create"
      [] fault = "limits" -> "connection.request"

-----------------------------------------------------------------------------
(* C1: when every probe succeeds and entry k is the first candidate whose      *)
(* ActiveScratchOrgs and DailyScratchOrgs remaining counts are both above      *)
(* zero, the hub selected, and handed to scratchOrgCreate as hubOrg, is entry  *)
(* k, whatever the entries after k report.                                     *)
C1_FirstCapableHubIsChosen ==
    \A k \in Hubs :
        ( /\ \A i \in Hubs : world[i].fault = "none"
          /\ BothQuotasPositive(world[k].limits)
          /\ \A j \in 1..(k - 1) : ~BothQuotasPositive(world[j].limits) )
        => /\ ~InSelection =>
                /\ targetDevHubOrg.hub = k
                /\ targetDevHubOrg.username = argv.target_dev_hub[k]
           /\ \A c \in 1..Len(createCalls) :
                /\ createCalls[c].hubOrg.hub = k
                /\ createCalls[c].hubOrg.username = argv.target_dev_hub[k]

C1_Witness ==
    /\ Len(world) = 2
    /\ \A i \in Hubs : world[i].fault = "none"
    /\ ~BothQuotasPositive(world[1].limits)
    /\ Len(createCalls) = 1
    /\ createCalls[1].hubOrg.hub = 2

(* C2: when no candidate has capacity and no probe fails (the empty list       *)
(* included), run() ends with the noAvailableDevhubs error and scratchOrgCreate*)
(* is never invoked.                                                           *)
C2_NoCapacityIsNoAvailableDevhubs ==
    (\A i \in Hubs : world[i].fault = "none" /\ ~BothQuotasPositive(world[i].limits))
    => /\ createCalls = <<>>
       /\ pc \in {"parse", "loop", "auth", "connect", "limits", "checkHub", "done"}
       /\ pc = "done" =>
            /\ outcome.status = "threw"
            /\ outcome.error.name = "noAvailableDevhubs"

C2_Witness ==
    /\ Len(world) = 2
    /\ \A i \in Hubs : world[i].fault = "none" /\ ~BothQuotasPositive(world[i].limits)
    /\ Len(probeLog) = 6
    /\ pc = "done"
    /\ outcome.error.name = "noAvailableDevhubs"

(* C3: the capacity check answers true exactly when the limits response holds  *)
(* both the key ActiveScratchOrgs and the key DailyScratchOrgs (case-sensitive)*)
(* with Remaining above zero; otherwise it answers false, without an error.    *)
C3_CapacityIffBothQuotasPositive ==
    [][ (pc = "limits" /\ world[idx].fault # "limits")
        => /\ outcome' = outcome
           /\ IF BothQuotasPositive(world[idx].limits)
              THEN pc' = "org" /\ idx' = idx
              ELSE pc' = "loop" /\ idx' = idx + 1 ]_vars

C3_Witness ==
    /\ pc = "loop"
    /\ idx = 2
    /\ outcome = Running
    /\ \E i \in 1..Len(world[1].limits) :
          world[1].limits[i].key = "activescratchorgs" /\ world[1].limits[i].Remaining > 0
    /\ \E i \in 1..Len(world[1].limits) :
          world[1].limits[i].key = "DailyScratchOrgs" /\ world[1].limits[i].Remaining > 0

(* C4: when scratchOrgCreate fails with the SfError named                      *)
(* ScratchOrgInfoTimeoutError, run() prints the resume hint with the job id the*)
(* error carries and then exits with code 69; the hint is printed before the   *)
(* exit and no result record is returned.                                      *)
C4_TimeoutHintThenExit69 ==
    ( /\ settled.state = "rejected"
      /\ settled.error.sfError
      /\ settled.error.name = "ScratchOrgInfoTimeoutError" )
    => LET hint == [via |-> "info", message |-> "action.resume",
                    tokens |-> <<"sf", settled.error.data.scratchOrgInfoId>>]
       IN  /\ pc \in {"exit", "done"} => hint \in Range(output)
           /\ outcome.status # "returned"
           /\ outcome.response = NoResponse
           /\ pc = "done" => outcome.status = "exit" /\ outcome.exitCode = 69

C4_Witness ==
    /\ pc = "done"
    /\ outcome.exitCode = 69
    /\ settled.error.data.scratchOrgInfoId = "2SR-2"
    /\ Len(output) = 2

(* C5: with async set the wait handed to scratchOrgCreate is zero, whatever the*)
(* wait flag, no lifecycle handler is subscribed and the last status is never  *)
(* written; with async unset the wait handed down is the wait flag and the     *)
(* handler is subscribed before scratchOrgCreate is invoked.                   *)
C5_AsyncWaitsZeroAndNeverSubscribes ==
    /\ argv.async => ~subscribed /\ lastStatus = NoStatus
    /\ \A c \in 1..Len(createCalls) :
          IF argv.async
          THEN createCalls[c].wait = 0
          ELSE /\ createCalls[c].wait = (IF argv.wait = 0 THEN 5 ELSE argv.wait)
               /\ subscribed

C5_Witness ==
    /\ argv.async
    /\ argv.wait = 3
    /\ Len(createCalls) = 1
    /\ createCalls[1].wait = 0
    /\ emitted = 1
    /\ pc = "done"

(* C6: in the orgConfig handed to scratchOrgCreate, every one of the flags     *)
(* edition, username, description, name, release, source-org and admin-email   *)
(* that is supplied gives its key (edition, username, description, orgName,    *)
(* release, sourceOrg, adminEmail) its own value, not the definition file's.   *)
C6_SuppliedFlagsOverrideFile ==
    \A c \in 1..Len(createCalls) :
        LET config == createCalls[c].orgConfig IN
        /\ SuppliedFlagHolds(config, flags.edition, "edition")
        /\ SuppliedFlagHolds(config, flags.username, "username")
        /\ SuppliedFlagHolds(config, flags.description, "description")
        /\ SuppliedFlagHolds(config, flags.name, "orgName")
        /\ SuppliedFlagHolds(config, flags.release, "release")
        /\ SuppliedFlagHolds(config, flags.source_org, "sourceOrg")
        /\ SuppliedFlagHolds(config, flags.admin_email, "adminEmail")

(* C7: the edition parse step turns every value partner-X into partner X, the  *)
(* rest of X unchanged, and returns every other value unchanged; so it does on *)
(* the eight edition options.                                                  *)
C7_PartnerHyphenBecomesSpace ==
    (pc # "parse" /\ argv.edition # Undefined)
    => LET value == argv.edition
           isPartner == /\ Len(value) >= 8
                        /\ \A i \in 1..8 : value[i] = <<"p", "a", "r", "t", "n", "e", "r", "-">>[i]
       IN  /\ isPartner =>
                flags.edition = <<"p", "a", "r", "t", "n", "e", "r", " ">>
                                    \o SubSeq(value, 9, Len(value))
           /\ ~isPartner => flags.edition = value
           /\ value \in {Developer, Enterprise, Group, Professional} => flags.edition = value
           /\ \A e \in {Developer, Enterprise, Group, Professional} :
                value = Partner \o <<"-">> \o e => flags.edition = Partner \o <<" ">> \o e

C7_Witness ==
    /\ pc = "loop"
    /\ argv.edition = PartnerHyphen \o <<"x", "-", "x">>
    /\ flags.edition = Partner \o <<" ", "x", "-", "x">>

(* C8: when authentication, connection creation or the limits request of       *)
(* candidate i fails and no earlier candidate had capacity, run() fails with   *)
(* that error, not with noAvailableDevhubs, and no candidate after i is probed.*)
C8_ProbeFailureIsFailFast ==
    \A i \in Hubs :
        ( /\ world[i].fault \in {"auth", "connection", "limits"}
          /\ \A j \in 1..(i - 1) :
                world[j].fault = "none" /\ ~BothQuotasPositive(world[j].limits) )
        => /\ \A n \in 1..Len(probeLog) : probeLog[n].hub <= i
           /\ createCalls = <<>>
           /\ targetDevHubOrg = NoOrg
           /\ pc = "done" =>
                /\ outcome.status = "threw"
                /\ outcome.error.name = FailureOf(world[i].fault)

C8_Witness ==
    /\ Len(world) = 2
    /\ world[1].fault = "limits"
    /\ world[2].fault = "none"
    /\ BothQuotasPositive(world[2].limits)
    /\ pc = "done"
    /\ outcome.error.name = "connection.request"

(* C9: candidates are probed in the caller's order, one at a time: candidate   *)
(* i+1 is authenticated only right after candidate i's capacity check returned *)
(* false; every list entry is probed at most once (a repeated identifier is a  *)
(* separate entry); no entry after the selected one is ever contacted.         *)
C9_ProbesInOrderAtMostOnce ==
    /\ \A n \in 1..Len(probeLog) :
          /\ probeLog[n].hub \in Hubs
          /\ probeLog[n].username = argv.target_dev_hub[probeLog[n].hub]
          /\ \A m \in 1..Len(probeLog) :
                (probeLog[m].hub = probeLog[n].hub /\ probeLog[m].call = probeLog[n].call)
                => m = n
          /\ n = 1 => probeLog[n].hub = 1 /\ probeLog[n].call = "AuthInfo.create"
          /\ n > 1 =>
                LET prev == probeLog[n - 1]
                    this == probeLog[n]
                IN  CASE this.call = "AuthInfo.create" ->
                            /\ this.hub = prev.hub + 1
                            /\ prev.call = "connection.request"
                            /\ world[prev.hub].fault = "none"
                            /\ ~BothQuotasPositive(world[prev.hub].limits)
                      [] this.call = "Connection.create" ->
                            this.hub = prev.hub /\ prev.call = "AuthInfo.create"
                      [] this.call = "connection.request" ->
                            this.hub = prev.hub /\ prev.call = "Connection.create"
                      [] this.call = "Org.create" ->
                            this.hub = prev.hub /\ prev.call = "connection.request"
    /\ targetDevHubOrg # NoOrg =>
          \A n \in 1..Len(probeLog) : probeLog[n].hub <= targetDevHubOrg.hub

C9_Witness ==
    /\ argv.target_dev_hub = <<"hubA", "hubA">>
    /\ targetDevHubOrg.hub = 2
    /\ Len(probeLog) = 7
    /\ pc = "done"

(* C10, as stated: every execution of run() invokes scratchOrgCreate exactly   *)
(* once.                                                                       *)
C10_ExactlyOneAttempt ==
    pc = "done" => Len(createCalls) = 1

(* C10, amended: run() invokes scratchOrgCreate at most once: exactly once in  *)
(* an execution that gets as far as the provisioning call, never in one that   *)
(* fails before it; and once it is invoked, no outcome leads to a second       *)
(* invocation or back to hub selection.                                        *)
C10_AtMostOneAttempt ==
    /\ [](/\ Len(createCalls) <= 1
          /\ pc \in {"awaiting", "fulfilled", "catch", "timeout", "exit"} => Len(createCalls) = 1
          /\ pc = "done" =>
                Len(createCalls) = (IF outcome.error.name \in
                                         {"AuthInfo.create", "Connection.create",
                                          "connection.request", "Org.create",
                                          "noAvailableDevhubs", "NoInstanceUrl",
                                          "secretPrompt", "JSON.parse"}
                                    THEN 0 ELSE 1))
    /\ [][Len(createCalls) >= 1 => ~BeforeInvocation']_vars

C10_Witness ==
    /\ pc = "done"
    /\ Len(createCalls) = 1
    /\ outcome.status = "threw"
    /\ outcome.error.name = "RemoteOrgSignupFailed"
    /\ emitted = 1

====
